---- MODULE Spec2Model ----
(***************************************************************************)
(* Model of yahoo_crypto_price_history.py: the ticker-list parser          *)
(* (load_tickers_generic and the four format loaders), fetch_history's     *)
(* retry loop and main's download loop.                                    *)
(*                                                                         *)
(* A Python str is a sequence of one-character strings.  The character     *)
(* U+2022 (the bullet) is written "u2022", one element of such a sequence. *)
(* A call that can raise returns a record [ok |-> TRUE, val |-> v] or      *)
(* [ok |-> FALSE, err |-> <exception class>].                              *)
(***************************************************************************)
EXTENDS Integers, Sequences, FiniteSets, TLC

VARIABLES
    \* ---- the parser's inputs and result
    suffix,      \* path.suffix.lower().lstrip("."), e.g. "csv", "json", "txt"
    exists,      \* tickers_path.exists()
    content,     \* the file's text
    col_hint,    \* args.col: <<>> for None, <<s>> for the str s
    shape,       \* how the text of a shaped plain-text file was put together
    loaded,      \* what load_tickers_generic gave: None, or Ok(list) / Err(e)
    \* ---- main
    args,        \* retries, sleep, csv, json, merged_json, dry_run, start, end
    pc,          \* main's position
    tickers,     \* the parsed ticker list
    idx,         \* 1-based position of the download loop in tickers
    exit_code,   \* main's return value: <<>> while it runs, then <<code>>
    dirs_made,   \* ensure_dirs has run
    written,     \* the output files written so far
    merged_records, \* symbols whose rows are in merged_records
    events,      \* main's visible steps, in order: fetch calls, sleeps, reports
    \* ---- fetch_history (the call in progress)
    attempt,     \* the loop variable of fetch_history
    last_err,    \* fetch_history's last_err: <<>> for None, <<n>> for attempt n's
    fh_log,      \* the provider calls and backoff sleeps of the call, in order
    df           \* what the call gave: None, Ok("rows"/"empty") or Err(e)

vars == <<suffix, exists, content, col_hint, shape, loaded, args, pc, tickers,
          idx, exit_code, dirs_made, written, merged_records, events,
          attempt, last_err, fh_log, df>>

parserVars == <<suffix, exists, content, col_hint, shape>>
mainVars == <<args, pc, tickers, idx, exit_code, dirs_made, written,
              merged_records, events>>
fetchVars == <<attempt, last_err, fh_log, df>>

None == [none |-> TRUE]
Ok(v) == [ok |-> TRUE, val |-> v]
Err(e) == [ok |-> FALSE, err |-> e]

(***************************************************************************)
(* Python str primitives                                                   *)
(***************************************************************************)
LowerCase == <<"a","b","c","d","e","f","g","h","i","j","k","l","m",
               "n","o","p","q","r","s","t","u","v","w","x","y","z">>
UpperCase == <<"A","B","C","D","E","F","G","H","I","J","K","L","M",
               "N","O","P","Q","R","S","T","U","V","W","X","Y","Z">>
Digits == <<"0","1","2","3","4","5","6","7","8","9">>
Bullet == "u2022"

Range(s) == {s[k] : k \in DOMAIN s}
IsLower(c) == c \in Range(LowerCase)
IsUpper(c) == c \in Range(UpperCase)
IsLetter(c) == IsLower(c) \/ IsUpper(c)
IsDigit(c) == c \in Range(Digits)
IsSpace(c) == c \in {" ", "\t", "\n", "\r"}

DigitValue(c) == (CHOOSE k \in DOMAIN Digits : Digits[k] = c) - 1

\* str.upper(), one character
UpperChar(c) ==
    IF IsLower(c) THEN UpperCase[CHOOSE k \in DOMAIN LowerCase : LowerCase[k] = c]
    ELSE c

\* str.upper()
Upper(s) == [k \in DOMAIN s |-> UpperChar(s[k])]

SpaceChars == {" ", "\t", "\n", "\r"}

\* the length of the longest run of characters of S in s that starts at k
RECURSIVE RunIn(_, _, _)
RunIn(s, k, S) ==
    IF k <= Len(s) /\ s[k] \in S THEN 1 + RunIn(s, k + 1, S) ELSE 0

\* the length of the longest run of characters not in S in s that starts at k
RECURSIVE RunNotIn(_, _, _)
RunNotIn(s, k, S) ==
    IF k <= Len(s) /\ s[k] \notin S THEN 1 + RunNotIn(s, k + 1, S) ELSE 0

RECURSIVE TrailLen(_, _)
TrailLen(s, k) ==
    IF k >= 1 /\ IsSpace(s[k]) THEN 1 + TrailLen(s, k - 1) ELSE 0

Drop(s, n) == SubSeq(s, n + 1, Len(s))
Take(s, n) == SubSeq(s, 1, n)

\* str.strip()
Strip(s) ==
    LET l == Drop(s, RunIn(s, 1, SpaceChars))
    IN  Take(l, Len(l) - TrailLen(l, Len(l)))

\* s.startswith(p)
StartsWith(s, p) == Len(s) >= Len(p) /\ Take(s, Len(p)) = p

\* s.find(p): the 1-based position of the first occurrence of p in s, 0 if none
RECURSIVE FindFrom(_, _, _)
FindFrom(s, p, k) ==
    IF k + Len(p) - 1 > Len(s) THEN 0
    ELSE IF SubSeq(s, k, k + Len(p) - 1) = p THEN k
    ELSE FindFrom(s, p, k + 1)

Find(s, p) == FindFrom(s, p, 1)

\* p in s
Contains(s, p) == Find(s, p) > 0

\* s.split(sep) for a non-empty separator
RECURSIVE Split(_, _)
Split(s, sep) ==
    LET k == Find(s, sep)
    IN  IF k = 0 THEN <<s>>
        ELSE <<Take(s, k - 1)>> \o Split(Drop(s, k + Len(sep) - 1), sep)

\* s.split(): the maximal runs of non-whitespace characters
RECURSIVE SplitWhitespace(_)
SplitWhitespace(s) ==
    LET t == Drop(s, RunIn(s, 1, SpaceChars))
        n == RunNotIn(t, 1, SpaceChars)
    IN  IF t = <<>> THEN <<>>
        ELSE <<Take(t, n)>> \o SplitWhitespace(Drop(t, n))

\* s.splitlines(): lines end at "\n"; no empty last line after a final "\n"
RECURSIVE SplitLines(_)
SplitLines(s) ==
    LET k == Find(s, <<"\n">>)
    IN  IF s = <<>> THEN <<>>
        ELSE IF k = 0 THEN <<s>>
        ELSE <<Take(s, k - 1)>> \o SplitLines(Drop(s, k))

RECURSIVE Concat(_)
Concat(ss) == IF ss = <<>> THEN <<>> ELSE Head(ss) \o Concat(Tail(ss))

(***************************************************************************)
(* Input parsing                                                           *)
(***************************************************************************)
\* the position after an optional character of S that follows position p of s
OptChar(s, p, S) == IF p < Len(s) /\ s[p + 1] \in S THEN p + 1 ELSE p

\* the position after the whitespace that follows position p of s
OptSpaces(s, p) == p + RunIn(s, p + 1, SpaceChars)

\* (-\s*)? after position p of s
OptDash(s, p) == IF p < Len(s) /\ s[p + 1] = "-" THEN OptSpaces(s, p + 1) ELSE p

\* \d+ after position p of s, then ([.)\:])?\s*(-\s*)? : 0 without a digit
DigitsAndTail(s, p, nd) ==
    IF nd = 0 THEN 0
    ELSE OptDash(s, OptSpaces(s, OptChar(s, p + nd, {".", ")", ":"})))

DigitsFrom(s, p) == DigitsAndTail(s, p, RunIn(s, p + 1, Range(Digits)))

\* _NUM_PREFIX without its \$?
NUM_PREFIX_no_dollar(s) == DigitsFrom(s, OptSpaces(s, 0))

\* _NUM_PREFIX = ^\s*\$?\d+([.)\:])?\s*(-\s*)? : the length of its match at
\* the start of s, 0 when it does not match (it cannot match the empty string)
NUM_PREFIX(s) == DigitsFrom(s, OptChar(s, OptSpaces(s, 0), {"$"}))

BulletAt(s, p) ==
    IF p < Len(s) /\ s[p + 1] \in {"-", "*", Bullet} THEN OptSpaces(s, p + 1) ELSE 0

\* _BULLET_PREFIX = ^\s*[-*\u2022]\s* : the length of its match at the start
BULLET_PREFIX(s) == BulletAt(s, OptSpaces(s, 0))

\* _TICKER_RE.fullmatch(s), _TICKER_RE = [A-Za-z\^][A-Za-z0-9.\-=]*
TICKER_RE(s) ==
    /\ Len(s) >= 1
    /\ IsLetter(s[1]) \/ s[1] = "^"
    /\ \A k \in 2..Len(s) : IsLetter(s[k]) \/ IsDigit(s[k]) \/ s[k] \in {".", "-", "="}

ticker == <<"t","i","c","k","e","r">>
symbol == <<"s","y","m","b","o","l">>
COMMON_COLS ==
    << ticker, ticker \o <<"s">>, symbol, symbol \o <<"s">>,
       <<"T">> \o Tail(ticker), <<"T">> \o Tail(ticker) \o <<"s">>,
       <<"S">> \o Tail(symbol), <<"S">> \o Tail(symbol) \o <<"s">>,
       <<"T">> \o Tail(ticker) \o <<" ">> \o <<"S">> \o Tail(symbol),
       Upper(symbol), Upper(ticker) >>

_normalize_symbol(sym) == Upper(Strip(sym))

RECURSIVE DedupeFrom(_, _)
DedupeFrom(items, seen) ==
    IF items = <<>> THEN <<>>
    ELSE LET x == Head(items)
         IN  IF x # <<>> /\ x \notin seen
             THEN <<x>> \o DedupeFrom(Tail(items), seen \cup {x})
             ELSE DedupeFrom(Tail(items), seen)

\* _dedupe without its "x not in seen" test
_dedupe_unseen(items) == SelectSeq(items, LAMBDA x : x # <<>>)

_dedupe(items) == DedupeFrom(items, {})

\* the first element of s that fully matches the ticker pattern, as a list of
\* at most one element
RECURSIVE FirstTicker(_)
FirstTicker(toks) ==
    IF toks = <<>> THEN <<>>
    ELSE IF TICKER_RE(Head(toks)) THEN <<_normalize_symbol(Head(toks))>>
    ELSE FirstTicker(Tail(toks))

NonEmpty(p) == p # <<>>

\* _NUM_PREFIX.sub("", line) and _BULLET_PREFIX.sub("", line)
SubNumPrefix(line) == Drop(line, NUM_PREFIX(line))
SubBulletPrefix(line) == Drop(line, BULLET_PREFIX(line))

\* "AAPL - Apple Inc.": the left side only, unless it is empty
LeftOf(line, dash, left) == IF dash > 0 /\ left # <<>> THEN left ELSE line
LeftAt(line, dash) == LeftOf(line, dash, Strip(Take(line, dash - 1)))
LeftOfDash(line) == LeftAt(line, Find(line, <<" ", "-", " ">>))

\* the pieces of line between the separator sep, stripped, the empty ones
\* left out, that fully match the ticker pattern, normalized
SeparatedSymbols(line, sep) ==
    LET pieces == Split(line, <<sep>>)
        good == SelectSeq([k \in DOMAIN pieces |-> Strip(pieces[k])],
                          LAMBDA x : x # <<>> /\ TICKER_RE(x))
    IN  [k \in DOMAIN good |-> _normalize_symbol(good[k])]

\* for sep in [",", "|", ";", "\t"]: ... break; else: the first token
SymbolsWith(line, seps) ==
    IF seps # <<>> THEN SeparatedSymbols(line, Head(seps))
    ELSE FirstTicker(SplitWhitespace(line))

LineSymbols(line) ==
    SymbolsWith(line, SelectSeq(<<",", "|", ";", "\t">>, LAMBDA c : Contains(line, <<c>>)))

\* what a stripped line of a text file adds to syms
StrippedLineSymbols(line) ==
    IF line = <<>> \/ line[1] = "#" THEN <<>>
    ELSE LineSymbols(LeftOfDash(SubBulletPrefix(SubNumPrefix(line))))

\* the body of the loop of load_tickers_from_text
TextLineSymbols(raw) == StrippedLineSymbols(Strip(raw))

\* syms of load_tickers_from_text when its loop ends
TextSyms(text) ==
    LET lines == SplitLines(text)
    IN  Concat([k \in DOMAIN lines |-> TextLineSymbols(lines[k])])

load_tickers_from_text(text) == Ok(_dedupe(TextSyms(text)))

\* the value of a run of decimal digits
RECURSIVE DecimalValue(_)
DecimalValue(d) ==
    IF d = <<>> THEN 0 ELSE 10 * DecimalValue(Take(d, Len(d) - 1)) + DigitValue(d[Len(d)])

Unsigned(d) ==
    IF d = <<>> \/ \E k \in DOMAIN d : ~IsDigit(d[k]) THEN Err("ValueError")
    ELSE Ok(DecimalValue(d))

Negated(r) == IF r.ok THEN Ok(0 - r.val) ELSE r

Signed(t) ==
    IF t # <<>> /\ t[1] = "-" THEN Negated(Unsigned(Tail(t)))
    ELSE IF t # <<>> /\ t[1] = "+" THEN Unsigned(Tail(t))
    ELSE Unsigned(t)

\* int(s): optional surrounding whitespace, an optional sign, decimal digits
\* (the "_" digit separator is not modelled)
ParseInt(s) == Signed(Strip(s))

\* pd.read_csv(path, sep=sep) on a rectangular table of unquoted text cells
\* under a header of distinct non-empty names: empty lines are skipped, no
\* line at all raises EmptyDataError, an empty cell reads as NaN.
\* The result is [columns |-> header, rows |-> the data rows].
NaN == <<"n","a","n">>
read_csv(text, sep) ==
    LET lines == SelectSeq(SplitLines(text), NonEmpty)
        cells == [k \in DOMAIN lines |-> Split(lines[k], <<sep>>)]
    IN  IF lines = <<>> THEN Err("EmptyDataError")
        ELSE Ok([columns |-> Head(cells), rows |-> Tail(cells)])

\* series.astype(str).tolist() of column c (1-based) of the table
ColumnStrings(table, c) ==
    [r \in DOMAIN table.rows |->
        IF c > Len(table.rows[r]) \/ table.rows[r][c] = <<>> THEN NaN
        ELSE table.rows[r][c]]

\* the position of the first column named name, 0 if there is none
ColumnNamed(table, name) ==
    IF \E c \in DOMAIN table.columns : table.columns[c] = name
    THEN CHOOSE c \in DOMAIN table.columns :
            /\ table.columns[c] = name
            /\ \A b \in 1..(c - 1) : table.columns[b] # name
    ELSE 0

\* df.iloc[:, idx] on a table of n columns: the column's 1-based position;
\* a negative idx counts from the last column
ILoc(n, i) ==
    IF 0 <= i /\ i < n THEN Ok(i + 1)
    ELSE IF 0 - n <= i /\ i < 0 THEN Ok(n + i + 1)
    ELSE Err("IndexError")

\* df[name], after the check that raises when name is not in df.columns
NamedColumn(table, c) == IF c = 0 THEN Err("ColumnNotFound") ELSE Ok(c)

\* the try/except of load_tickers_from_table: i is int(col_hint) or its
\* ValueError
HintedColumn(table, name, i) ==
    IF i.ok THEN ILoc(Len(table.columns), i.val)
    ELSE NamedColumn(table, ColumnNamed(table, name))

\* next((c for c in df.columns if c in COMMON_COLS), None), else column 0
DefaultColumn(table, common) ==
    IF common # <<>> THEN Ok(ColumnNamed(table, Head(common))) ELSE Ok(1)

\* the column load_tickers_from_table reads (1-based), or the error it raises;
\* hint is <<>> for None and <<s>> for the str s
SelectColumn(table, hint) ==
    IF hint # <<>> THEN HintedColumn(table, hint[1], ParseInt(hint[1]))
    ELSE DefaultColumn(table,
            SelectSeq(table.columns, LAMBDA c : c \in Range(COMMON_COLS)))

\* syms of load_tickers_from_table: the cells of column c that are not blank
TableSyms(table, c) ==
    LET cells == SelectSeq(ColumnStrings(table, c), LAMBDA x : Strip(x) # <<>>)
    IN  [k \in DOMAIN cells |-> _normalize_symbol(cells[k])]

ColumnSymbols(table, col) ==
    IF ~col.ok THEN col ELSE Ok(_dedupe(TableSyms(table, col.val)))

\* load_tickers_from_table after pd.read_csv: t is the table or the error
FromTable(t, hint) ==
    IF ~t.ok THEN t
    ELSE IF t.val.rows = <<>> THEN Ok(<<>>)
    ELSE ColumnSymbols(t.val, SelectColumn(t.val, hint))

load_tickers_from_table(text, sep, hint) == FromTable(read_csv(text, sep), hint)

\* A JSON value is [t |-> "str", v |-> characters], [t |-> "num", v |-> digits],
\* [t |-> "null", v |-> <<>>], [t |-> "list", v |-> values] or
\* [t |-> "dict", v |-> members], a member being [k |-> key, v |-> value].
JVal(t, v) == [t |-> t, v |-> v]
ParseFail == [ok |-> FALSE, val |-> JVal("null", <<>>), next |-> 0]
Parsed(v, next) == [ok |-> TRUE, val |-> v, next |-> next]
SkipSpace(s, k) == k + RunIn(s, k, SpaceChars)
CharAt(s, k) == IF k >= 1 /\ k <= Len(s) THEN s[k] ELSE "EOF"

\* json.loads's scanner on strings without escapes, unsigned integers, null,
\* arrays and objects: the value that starts at or after position k of s
RECURSIVE ParseValue(_, _)
RECURSIVE ParseItems(_, _, _)
RECURSIVE ParseMembers(_, _, _)
ParseValue(s, k0) ==
    LET k == SkipSpace(s, k0)
        c == CharAt(s, k)
        n == RunNotIn(s, k + 1, {"\"", "\\"})
        d == RunIn(s, k, Range(Digits))
    IN  CASE c = "\"" ->
                IF CharAt(s, k + 1 + n) = "\""
                THEN Parsed(JVal("str", SubSeq(s, k + 1, k + n)), k + n + 2)
                ELSE ParseFail
          [] IsDigit(c) -> Parsed(JVal("num", SubSeq(s, k, k + d - 1)), k + d)
          [] c = "n" ->
                IF SubSeq(s, k, k + 3) = <<"n","u","l","l">>
                THEN Parsed(JVal("null", <<>>), k + 4) ELSE ParseFail
          [] c = "[" ->
                IF CharAt(s, SkipSpace(s, k + 1)) = "]"
                THEN Parsed(JVal("list", <<>>), SkipSpace(s, k + 1) + 1)
                ELSE ParseItems(s, k + 1, <<>>)
          [] c = "{" ->
                IF CharAt(s, SkipSpace(s, k + 1)) = "}"
                THEN Parsed(JVal("dict", <<>>), SkipSpace(s, k + 1) + 1)
                ELSE ParseMembers(s, k + 1, <<>>)
          [] OTHER -> ParseFail

ParseItems(s, k, acc) ==
    LET v == ParseValue(s, k)
        e == SkipSpace(s, v.next)
    IN  IF ~v.ok THEN ParseFail
        ELSE IF CharAt(s, e) = "," THEN ParseItems(s, e + 1, Append(acc, v.val))
        ELSE IF CharAt(s, e) = "]" THEN Parsed(JVal("list", Append(acc, v.val)), e + 1)
        ELSE ParseFail

ParseMembers(s, k, acc) ==
    LET key == ParseValue(s, k)
        colon == SkipSpace(s, key.next)
        v == ParseValue(s, colon + 1)
        e == SkipSpace(s, v.next)
        more == Append(acc, [k |-> key.val.v, v |-> v.val])
    IN  IF ~key.ok \/ key.val.t # "str" \/ CharAt(s, colon) # ":" THEN ParseFail
        ELSE IF ~v.ok THEN ParseFail
        ELSE IF CharAt(s, e) = "," THEN ParseMembers(s, e + 1, more)
        ELSE IF CharAt(s, e) = "}" THEN Parsed(JVal("dict", more), e + 1)
        ELSE ParseFail

\* json.loads(text): one value, then nothing but whitespace
json_loads(text) ==
    LET r == ParseValue(text, 1)
    IN  IF r.ok /\ SkipSpace(text, r.next) = Len(text) + 1 THEN Ok(r.val)
        ELSE Err("JSONDecodeError")

\* k in o
HasKey(o, key) == \E m \in DOMAIN o.v : o.v[m].k = key

\* o[k]: of members with equal keys a dict keeps the last
GetKey(o, key) ==
    o.v[CHOOSE m \in DOMAIN o.v :
            /\ o.v[m].k = key
            /\ \A later \in (m + 1)..Len(o.v) : o.v[later].k # key].v

EXTRA_KEYS ==
    << <<"T">> \o Tail(ticker) \o <<"S">> \o Tail(symbol),
       <<"R","I","C">>,
       <<"Y","a","h","o","o">>,
       <<"Y","a","h","o","o">> \o <<"S">> \o Tail(symbol) >>

\* what one object contributes to _extract_from_dicts: the value of the first
\* key of the list that the object maps to a str that is not blank
FirstHit(o, hits) ==
    IF hits = <<>> THEN <<>> ELSE <<_normalize_symbol(GetKey(o, Head(hits)).v)>>

IsStr(v) == v.t = "str" /\ Strip(v.v) # <<>>

ExtractOne(o) ==
    FirstHit(o, SelectSeq(COMMON_COLS \o EXTRA_KEYS,
                          LAMBDA k : HasKey(o, k) /\ IsStr(GetKey(o, k))))

_extract_from_dicts(objs) == Concat([k \in DOMAIN objs |-> ExtractOne(objs[k])])

\* [_normalize_symbol(x) for x in data]
JsonStrings(xs) == [k \in DOMAIN xs |-> _normalize_symbol(xs[k].v)]

\* load_tickers_from_json after json.loads: data is the value or the error
FromJson(data) ==
    IF ~data.ok THEN data
    ELSE IF data.val.t = "list" /\ \A k \in DOMAIN data.val.v : data.val.v[k].t = "str"
    THEN Ok(_dedupe(JsonStrings(data.val.v)))
    ELSE IF data.val.t = "list" /\ \A k \in DOMAIN data.val.v : data.val.v[k].t = "dict"
    THEN Ok(_dedupe(_extract_from_dicts(data.val.v)))
    ELSE Err("ValueError")

load_tickers_from_json(text) == FromJson(json_loads(text))

\* what one line of a JSON-lines file adds to syms; the line is not blank
JsonlLineSymbols(obj) ==
    IF obj.t = "str" THEN <<_normalize_symbol(obj.v)>>
    ELSE IF obj.t = "dict" THEN _extract_from_dicts(<<obj>>)
    ELSE <<>>

\* syms of load_tickers_from_jsonl when its loop ends
JsonlSyms(objs) == Concat([k \in DOMAIN objs |-> JsonlLineSymbols(objs[k].val)])

\* load_tickers_from_jsonl after json.loads of each line that is not blank
FromJsonl(objs) ==
    IF \E k \in DOMAIN objs : ~objs[k].ok THEN Err("JSONDecodeError")
    ELSE Ok(_dedupe(JsonlSyms(objs)))

StrippedLines(raw) == SelectSeq([k \in DOMAIN raw |-> Strip(raw[k])], NonEmpty)
LoadsEach(lines) == [k \in DOMAIN lines |-> json_loads(lines[k])]

load_tickers_from_jsonl(text) == FromJsonl(LoadsEach(StrippedLines(SplitLines(text))))

\* load_tickers_generic(path, col_hint), sfx being path.suffix.lower().lstrip(".")
load_tickers_generic(sfx, text, hint) ==
    IF sfx \in {"csv", "tsv"}
    THEN load_tickers_from_table(text, IF sfx = "csv" THEN "," ELSE "\t", hint)
    ELSE IF sfx = "json" THEN load_tickers_from_json(text)
    ELSE IF sfx = "jsonl" THEN load_tickers_from_jsonl(text)
    ELSE load_tickers_from_text(text)

(***************************************************************************)
(* fetch_history: one step per pass of its retry loop.  The body of the    *)
(* try block (the provider's history call and the renaming of the columns) *)
(* either gives a table, with rows or empty, or raises.  A table and an    *)
(* error carry the attempt that produced them.                             *)
(***************************************************************************)
\* a loop that always makes a first attempt: range(1, max(retries, 1) + 1)
AttemptRangeAtLeastOne(retries) == 1..(IF retries < 1 THEN 1 ELSE retries)

\* range(1, retries + 1)
AttemptRange(retries) == 1..retries

\* a backoff that grows linearly: base_sleep * attempt
BackoffLinear(base_sleep, n) == base_sleep * n

\* base_sleep * (2 ** (attempt - 1))
Backoff(base_sleep, n) == base_sleep * (2 ^ (n - 1))

\* the try body returns df
AttemptReturns ==
    /\ pc = "fetch"
    /\ attempt \in AttemptRange(args.retries)
    /\ \E kind \in {"rows", "empty"} :
          /\ df' = Ok([kind |-> kind, attempt |-> attempt])
          /\ fh_log' = Append(fh_log, [e |-> "call", n |-> attempt, ok |-> TRUE])
    /\ pc' = "handle"
    /\ UNCHANGED <<attempt, last_err>>
    /\ UNCHANGED <<parserVars, loaded, args, tickers, idx, exit_code, dirs_made,
                   written, merged_records, events>>

\* the try body raises: last_err = e, then the backoff sleep
AttemptRaises ==
    /\ pc = "fetch"
    /\ attempt \in AttemptRange(args.retries)
    /\ last_err' = <<attempt>>
    /\ fh_log' = fh_log \o << [e |-> "call", n |-> attempt, ok |-> FALSE],
                              [e |-> "sleep", secs |-> Backoff(args.sleep, attempt)] >>
    /\ attempt' = attempt + 1
    /\ UNCHANGED <<df, mainVars, parserVars, loaded>>

\* the loop is over: assert last_err is not None; raise last_err
\* (last_err is <<>> for None and <<n>> for the error of attempt n)
RetriesExhausted ==
    /\ pc = "fetch"
    /\ attempt \notin AttemptRange(args.retries)
    /\ df' = IF last_err = <<>> THEN Err([type |-> "AssertionError", attempt |-> 0])
             ELSE Err([type |-> "ProviderError", attempt |-> last_err[1]])
    /\ pc' = "handle"
    /\ UNCHANGED <<attempt, last_err, fh_log>>
    /\ UNCHANGED <<parserVars, loaded, args, tickers, idx, exit_code, dirs_made,
                   written, merged_records, events>>

(***************************************************************************)
(* main                                                                    *)
(***************************************************************************)
\* valid_dates(start, end): a date is 0 when strptime rejects its text, and
\* else a positive number, ordered as the YYYY-MM-DD texts are; end is
\* args.end or, without one, today
valid_dates(start, end) ==
    IF start = 0 \/ end = 0 THEN Err("ValueError")
    ELSE IF start > end THEN Err("ValueError")
    ELSE Ok(<<start, end>>)

Message(what) == [e |-> "message", what |-> what]

\* main from its first line to the download loop (yfinance is installed):
\* the exit code when main returns before the loop (<<>> when it does not),
\* what it prints, the ticker list and whether ensure_dirs has run
Return(code, what) ==
    [exit |-> <<code>>, events |-> <<Message(what)>>, tickers |-> <<>>, dirs |-> FALSE]

\* main with ensure_dirs moved up, before the tickers file is read
ReturnWithDirs(code, what) ==
    [exit |-> <<code>>, events |-> <<Message(what)>>, tickers |-> <<>>, dirs |-> TRUE]

PrologueDirsFirst(r, a) ==
    IF r = <<>> THEN ReturnWithDirs(2, "Tickers file not found")
    ELSE IF ~r[1].ok THEN ReturnWithDirs(2, "Error while reading tickers")
    ELSE IF r[1].val = <<>> THEN ReturnWithDirs(2, "No tickers found")
    ELSE IF a.dry_run THEN ReturnWithDirs(0, "Parsed")
    ELSE IF ~valid_dates(a.start, a.end).ok THEN ReturnWithDirs(2, "Date error")
    ELSE [exit |-> <<>>, events |-> <<Message("Found")>>,
          tickers |-> r[1].val, dirs |-> TRUE]

\* r is what load_tickers_generic gave, or <<>> when the file does not exist
PrologueWith(r, a) ==
    IF r = <<>> THEN Return(2, "Tickers file not found")
    ELSE IF ~r[1].ok THEN Return(2, "Error while reading tickers")
    ELSE IF r[1].val = <<>> THEN Return(2, "No tickers found")
    ELSE IF a.dry_run THEN Return(0, "Parsed")
    ELSE IF ~valid_dates(a.start, a.end).ok THEN Return(2, "Date error")
    ELSE [exit |-> <<>>, events |-> <<Message("Found")>>,
          tickers |-> r[1].val, dirs |-> TRUE]

Prologue(ex, sfx, text, hint, a) ==
    PrologueWith(IF ex THEN <<load_tickers_generic(sfx, text, hint)>> ELSE <<>>, a)

Start ==
    /\ pc = "start"
    /\ \E p \in {Prologue(exists, suffix, content, col_hint, args)} :
           /\ events' = events \o p.events
           /\ tickers' = p.tickers
           /\ dirs_made' = p.dirs
           /\ exit_code' = p.exit
           /\ pc' = IF p.exit = <<>> THEN "loop" ELSE "exit"
    /\ idx' = 1
    /\ UNCHANGED <<parserVars, loaded, args, written, merged_records, fetchVars>>

Fetch(t) == [e |-> "fetch", t |-> t]
Report(t, what) == [e |-> "report", t |-> t, what |-> what]
Sleep(secs) == [e |-> "sleep", secs |-> secs]

\* the loop takes its next ticker and calls fetch_history
CallFetch ==
    /\ pc = "loop"
    /\ idx <= Len(tickers)
    /\ events' = Append(events, Fetch(tickers[idx]))
    /\ attempt' = 1
    /\ last_err' = <<>>
    /\ fh_log' = <<>>
    /\ df' = None
    /\ pc' = "fetch"
    /\ UNCHANGED <<parserVars, loaded, args, tickers, idx, exit_code, dirs_made,
                   written, merged_records>>

NextTicker ==
    /\ idx' = idx + 1
    /\ pc' = "loop"
    /\ attempt' = 0
    /\ last_err' = <<>>
    /\ fh_log' = <<>>
    /\ df' = None
    /\ UNCHANGED <<parserVars, loaded, args, tickers, exit_code, dirs_made>>

\* df.empty: print " empty"; continue
HandleEmpty ==
    /\ pc = "handle"
    /\ df.ok /\ df.val.kind = "empty"
    /\ events' = Append(events, Report(tickers[idx], "empty"))
    /\ NextTicker
    /\ UNCHANGED <<written, merged_records>>

\* the writes a table with rows goes through, in order
WriteStages(a) ==
    (IF a.csv THEN <<"csv">> ELSE <<>>) \o (IF a.json THEN <<"json">> ELSE <<>>)
        \o (IF a.merged_json THEN <<"merged">> ELSE <<>>)

\* df has rows: the writes that args asks for, the first n of them succeeding
\* and the next one, if any, raising; then print " ok" or " error"; then sleep
HandleRows ==
    /\ pc = "handle"
    /\ df.ok /\ df.val.kind = "rows"
    /\ LET t == tickers[idx]
           stages == WriteStages(args)
       IN  \E n \in 0..Len(stages) :
              LET done == {stages[k] : k \in 1..n}
              IN  /\ written' = written \cup {<<st, t>> : st \in done \ {"merged"}}
                  /\ merged_records' = IF "merged" \in done
                                       THEN Append(merged_records, t)
                                       ELSE merged_records
                  /\ events' = events \o
                        << Report(t, IF n = Len(stages) THEN "ok" ELSE "error"),
                           Sleep(args.sleep) >>
    /\ NextTicker

\* the loop body without its except clause: the error ends main
HandleErrorUncaught ==
    /\ pc = "handle"
    /\ ~df.ok
    /\ pc' = "exit"
    /\ exit_code' = <<1>>
    /\ UNCHANGED <<parserVars, loaded, args, tickers, idx, dirs_made, written,
                   merged_records, events, fetchVars>>

\* fetch_history raised: print " error"; then sleep
HandleError ==
    /\ pc = "handle"
    /\ ~df.ok
    /\ events' = events \o << Report(tickers[idx], "error"), Sleep(args.sleep) >>
    /\ NextTicker
    /\ UNCHANGED <<written, merged_records>>

\* after the loop: the merged JSON, "Done.", return 0
Finish ==
    /\ pc = "loop"
    /\ idx > Len(tickers)
    /\ written' = IF args.merged_json /\ merged_records # <<>>
                  THEN written \cup {<<"merged", <<>> >>}
                  ELSE written
    /\ events' = Append(events, Message("Done"))
    /\ exit_code' = <<0>>
    /\ pc' = "exit"
    /\ UNCHANGED <<parserVars, loaded, args, tickers, idx, dirs_made,
                   merged_records, fetchVars>>

(***************************************************************************)
(* Inputs                                                                  *)
(***************************************************************************)
MaxLines == 3       \* lines of a text file, items of a JSON list
MaxRows == 2        \* data rows of a table
MaxShaped == 2      \* lines of a text file of prefixed symbols
MaxRetries == 3     \* --retries
MaxSleep == 2       \* --sleep

SeqsUpTo(S, n) == UNION {[1..k -> S] : k \in 0..n}

\* every line ends with "\n"
JoinLines(lines) == Concat([k \in DOMAIN lines |-> lines[k] \o <<"\n">>])

RECURSIVE JoinWith(_, _)
JoinWith(parts, sep) ==
    IF parts = <<>> THEN <<>>
    ELSE IF Len(parts) = 1 THEN parts[1]
    ELSE parts[1] \o sep \o JoinWith(Tail(parts), sep)

TextLinePool ==
    { <<"a">>,
      <<" ","A"," ">>,
      <<"b">>,
      <<"-"," ","b">>,
      <<"1","."," ","a">>,
      <<"#","a">>,
      <<>>,
      <<"a",",","1","b",";","B">>,
      <<"b"," ","-"," ","x">>,
      <<"1","a">>,
      <<"B","|","a">> }

JsonItemPool ==
    { <<"\"","a","\"">>,
      <<"\""," ","A","\"">>,
      <<"\"","b","\"">>,
      <<"\"","1","a","\"">>,
      <<"\"","\"">>,
      <<"{","\"","s","y","m","b","o","l","\"",":","\"","b","\"","}">>,
      <<"{","\"","f","o","o","\"",":","\"","a","\"","}">>,
      <<"1">> }

JsonOddTexts ==
    { <<>>,
      <<"[">>,
      <<"{","\"","f","o","o","\"",":","\"","b","a","r","\"","}">>,
      <<"\"","a","\"">>,
      <<"[","\"","a","\"","]"," ","x">> }

TableHeaders ==
    { <<<<"S","y","m","b","o","l">>, <<"N","a","m","e">>>>,
      <<<<"i","d">>, <<"s","y","m">>>>,
      <<<<"i","d">>, <<"t","i","c","k","e","r">>>> }

TableRowPool ==
    { <<<<"a">>, <<"x">>>>,
      <<<<" ","A">>, <<"b">>>>,
      <<<<"b">>, <<"a">>>>,
      <<<<"1","a">>, <<"B"," ">>>>,
      <<<<>>, <<"a">>>> }

TableHints ==
    { <<>>, <<<<"0">>>>, <<<<"1">>>>, <<<<"2">>>>, <<<<"-","1">>>>, <<<<"S","y","m","b","o","l">>>>, <<<<"s","y","m">>>>, <<<<"z","z">>>> }

TextFiles(n) ==
    { [suffix |-> "txt", content |-> JoinLines(ls), col_hint |-> <<>>] :
        ls \in SeqsUpTo(TextLinePool, n) }

JsonFiles(n) ==
    { [suffix |-> "json", content |-> <<"[">> \o JoinWith(xs, <<",">>) \o <<"]">>,
       col_hint |-> <<>>] : xs \in SeqsUpTo(JsonItemPool, n) }
    \cup { [suffix |-> "json", content |-> t, col_hint |-> <<>>] : t \in JsonOddTexts }

JsonlFiles(n) ==
    { [suffix |-> "jsonl", content |-> JoinLines(xs), col_hint |-> <<>>] :
        xs \in SeqsUpTo(JsonItemPool \cup {<<>>, <<"[">>}, n) }

TableText(sep, header, rows) ==
    JoinLines([k \in 1..(Len(rows) + 1) |->
                JoinWith(IF k = 1 THEN header ELSE rows[k - 1], <<sep>>)])

TableFiles(n) ==
    { [suffix |-> sfx,
       content |-> TableText(IF sfx = "csv" THEN "," ELSE "\t", h, rows),
       col_hint |-> hint] :
        sfx \in {"csv", "tsv"}, h \in TableHeaders,
        rows \in SeqsUpTo(TableRowPool, n), hint \in TableHints }
    \cup { [suffix |-> sfx, content |-> <<>>, col_hint |-> hint] :
            sfx \in {"csv", "tsv"}, hint \in {<<>>, <<<<"0">>>>} }

ParserInputs(lines, rows) ==
    TextFiles(lines) \cup JsonFiles(lines) \cup JsonlFiles(lines) \cup TableFiles(rows)

\* a line of a text file: a numbering or bullet prefix, a symbol that matches
\* the ticker pattern, a description
Prefixes ==
    { <<"1",".">>,
      <<"2",")">>,
      <<"$","3",":">>,
      <<"4"," ","-">>,
      <<"-"," ">>,
      <<"*"," ">>,
      <<Bullet," ">>,
      <<"1","2","."," ">>,
      <<"7",")"," ">>,
      <<"$","1","0",":"," ">>,
      <<"4"," ","-"," ">>,
      <<"*"," "," ">> }
ShapedSymbols ==
    { <<"b","t","c">>,
      <<"B","T","C">>,
      <<"E","t","h","-","u","s","d">>,
      <<"^","a">>,
      <<"B","=","f",".","9">> }
Descriptions ==
    { <<>>,
      <<" ","-"," ","A","p","p","l","e"," ","I","n","c",".">>,
      <<" ","-"," ","a",","," ","b"," ","-"," ","c">> }
ShapedLines == [prefix : Prefixes, sym : ShapedSymbols, desc : Descriptions]

FewPrefixes ==
    { <<"1",".">>,
      <<"$","3",":"," ">>,
      <<"4"," ","-">>,
      <<Bullet," ">> }
FewSymbols ==
    { <<"b","t","c">>,
      <<"B","t","c">>,
      <<"^","a">> }
FewDescriptions ==
    { <<>>,
      <<" ","-"," ","a",","," ","b"," ","-"," ","c">> }
FewShapedLines == [prefix : FewPrefixes, sym : FewSymbols, desc : FewDescriptions]

\* one line of any shape, or up to MaxShaped lines of a few shapes
Shapes(n) == [1..1 -> ShapedLines] \cup SeqsUpTo(FewShapedLines, n)

ShapedText(sh) ==
    JoinLines([k \in DOMAIN sh |-> sh[k].prefix \o sh[k].sym \o sh[k].desc])

NoArgs == [retries |-> 0, sleep |-> 0, csv |-> FALSE, json |-> FALSE,
           merged_json |-> FALSE, dry_run |-> FALSE, start |-> 0, end |-> 0]

MainIdle ==
    /\ args = NoArgs
    /\ pc = "idle"
    /\ tickers = <<>>
    /\ idx = 0
    /\ exit_code = <<>>
    /\ dirs_made = FALSE
    /\ written = {}
    /\ merged_records = <<>>
    /\ events = <<>>
    /\ attempt = 0
    /\ last_err = <<>>
    /\ fh_log = <<>>
    /\ df = None

(***************************************************************************)
(* The parser alone: load_tickers_generic on a file of any format          *)
(***************************************************************************)
Load ==
    /\ pc = "idle"
    /\ loaded = None
    /\ loaded' = load_tickers_generic(suffix, content, col_hint)
    /\ UNCHANGED <<parserVars, mainVars, fetchVars>>

InitParser ==
    /\ \E f \in ParserInputs(MaxLines, MaxRows) :
          /\ suffix = f.suffix
          /\ content = f.content
          /\ col_hint = f.col_hint
    /\ exists = TRUE
    /\ shape = <<>>
    /\ loaded = None
    /\ MainIdle

SpecParser == InitParser /\ [][Load]_vars

\* load_tickers_from_text on a file of prefixed symbols
LoadText ==
    /\ pc = "idle"
    /\ loaded = None
    /\ loaded' = load_tickers_from_text(content)
    /\ UNCHANGED <<parserVars, mainVars, fetchVars>>

InitText ==
    /\ shape \in Shapes(MaxShaped)
    /\ content = ShapedText(shape)
    /\ suffix = "txt"
    /\ col_hint = <<>>
    /\ exists = TRUE
    /\ loaded = None
    /\ MainIdle

SpecText == InitText /\ [][LoadText]_vars

(***************************************************************************)
(* main                                                                    *)
(***************************************************************************)
MainFiles ==
    { [exists |-> FALSE, suffix |-> "txt", content |-> <<>>, col_hint |-> <<>>],
      [exists |-> TRUE, suffix |-> "txt", content |-> <<>>, col_hint |-> <<>>],
      [exists |-> TRUE, suffix |-> "txt", content |-> <<"1","."," ","a","\n","-"," ","b","\n">>, col_hint |-> <<>>],
      [exists |-> TRUE, suffix |-> "jsonl", content |-> <<"\"","a","\"","\n","\"","b","\"","\n","\"","c","\"","\n">>, col_hint |-> <<>>],
      [exists |-> TRUE, suffix |-> "jsonl", content |-> <<"\"","a","\"","\n","[","\n">>, col_hint |-> <<>>],
      [exists |-> TRUE, suffix |-> "json", content |-> <<>>, col_hint |-> <<>>],
      [exists |-> TRUE, suffix |-> "json", content |-> <<"{","\"","f","o","o","\"",":","\"","b","a","r","\"","}">>, col_hint |-> <<>>],
      [exists |-> TRUE, suffix |-> "csv", content |-> <<"S","y","m","b","o","l",",","N","a","m","e","\n","a",",","x","\n">>, col_hint |-> <<>>],
      [exists |-> TRUE, suffix |-> "csv", content |-> <<"S","y","m","b","o","l",",","N","a","m","e","\n","a",",","x","\n">>, col_hint |-> <<<<"z","z">>>>] }

ArgSets ==
    [retries : (0 - 1)..MaxRetries, sleep : 0..MaxSleep, csv : BOOLEAN,
     json : BOOLEAN, merged_json : BOOLEAN, dry_run : BOOLEAN,
     start : 0..2, end : 0..1]

Init ==
    /\ \E f \in MainFiles :
          /\ exists = f.exists
          /\ suffix = f.suffix
          /\ content = f.content
          /\ col_hint = f.col_hint
    /\ shape = <<>>
    /\ loaded = None
    /\ args \in ArgSets
    /\ pc = "start"
    /\ tickers = <<>>
    /\ idx = 0
    /\ exit_code = <<>>
    /\ dirs_made = FALSE
    /\ written = {}
    /\ merged_records = <<>>
    /\ events = <<>>
    /\ attempt = 0
    /\ last_err = <<>>
    /\ fh_log = <<>>
    /\ df = None

Next ==
    \/ Start
    \/ CallFetch
    \/ AttemptReturns
    \/ AttemptRaises
    \/ RetriesExhausted
    \/ HandleEmpty
    \/ HandleRows
    \/ HandleError
    \/ Finish

Spec == Init /\ [][Next]_vars

(***************************************************************************)
(* Properties of the parser                                                *)
(***************************************************************************)
Returned == loaded # None /\ loaded.ok

\* the list a loader that returns hands to _dedupe
TableCandidates(t, hint) ==
    IF t.val.rows = <<>> THEN <<>> ELSE TableSyms(t.val, SelectColumn(t.val, hint).val)

JsonCandidates(data) ==
    IF \A k \in DOMAIN data.val.v : data.val.v[k].t = "str"
    THEN JsonStrings(data.val.v) ELSE _extract_from_dicts(data.val.v)

Candidates ==
    IF suffix \in {"csv", "tsv"}
    THEN TableCandidates(read_csv(content, IF suffix = "csv" THEN "," ELSE "\t"), col_hint)
    ELSE IF suffix = "json" THEN JsonCandidates(json_loads(content))
    ELSE IF suffix = "jsonl" THEN JsonlSyms(LoadsEach(StrippedLines(SplitLines(content))))
    ELSE TextSyms(content)

\* the position of the first occurrence of x in c
FirstIndex(c, x) == CHOOSE k \in DOMAIN c : c[k] = x /\ \A j \in 1..(k - 1) : c[j] # x

NoDuplicates(v) == \A i, j \in DOMAIN v : i # j => v[i] # v[j]

FirstSeenOrder(v, c) ==
    /\ Range(v) = Range(c) \ {<<>>}
    /\ \A i, j \in DOMAIN v : i < j => FirstIndex(c, v[i]) < FirstIndex(c, v[j])

\* C1: the list load_tickers_generic returns, in every format, holds no two
\* equal elements, and its elements are the normalized candidate symbols of
\* the input in the order of their first occurrences (later occurrences, which
\* may differ in case or surrounding whitespace in the file, are dropped).
C1_NoDuplicatesFirstSeenOrder ==
    Returned => NoDuplicates(loaded.val) /\ FirstSeenOrder(loaded.val, Candidates)

\* a JSON list of three strings, two of them the same symbol
C1_Witness ==
    /\ Returned
    /\ suffix = "json"
    /\ Len(Candidates) = MaxLines
    /\ Len(loaded.val) = MaxLines - 1
    /\ Candidates[1] = Candidates[MaxLines]

\* the table of a table file that pd.read_csv could read
TheTable == read_csv(content, IF suffix = "csv" THEN "," ELSE "\t").val
IsTable == suffix \in {"csv", "tsv"} /\ read_csv(content, IF suffix = "csv" THEN "," ELSE "\t").ok

HintIsIndex(hint, n) == ParseInt(hint).ok /\ 0 <= ParseInt(hint).val /\ ParseInt(hint).val < n
HintIsName(hint, table) == hint \in Range(table.columns)

CommonHeaders(table) == SelectSeq(table.columns, LAMBDA c : c \in Range(COMMON_COLS))

\* C5: in load_tickers_from_table a column hint that is numeric is a zero-based
\* column index and any other hint is an exact header name; a hint that matches
\* neither a column index nor a header name fails with ColumnNotFound, never
\* with another error and never with a list; without a hint the column is the
\* first header of the common-alias list, else the first column.
C5_ColumnSelection ==
    (IsTable /\ loaded # None) =>
        /\ (col_hint # <<>> /\ ~HintIsIndex(col_hint[1], Len(TheTable.columns))
                /\ ~HintIsName(col_hint[1], TheTable))
            => loaded = Err("ColumnNotFound")
        /\ (col_hint # <<>> /\ HintIsIndex(col_hint[1], Len(TheTable.columns)))
            => loaded = Ok(_dedupe(TableSyms(TheTable, ParseInt(col_hint[1]).val + 1)))
        /\ (col_hint # <<>> /\ ~ParseInt(col_hint[1]).ok /\ HintIsName(col_hint[1], TheTable))
            => loaded = Ok(_dedupe(TableSyms(TheTable, ColumnNamed(TheTable, col_hint[1]))))
        /\ col_hint = <<>>
            => loaded = Ok(_dedupe(TableSyms(TheTable,
                    IF CommonHeaders(TheTable) # <<>>
                    THEN ColumnNamed(TheTable, Head(CommonHeaders(TheTable))) ELSE 1)))

\* C7: every element of the list load_tickers_generic returns is a Symbol: not
\* empty, equal to its own trimmed and uppercased form, and a full match of
\* the ticker pattern.
C7_EveryElementIsSymbol ==
    Returned =>
        \A k \in DOMAIN loaded.val :
            /\ loaded.val[k] # <<>>
            /\ _normalize_symbol(loaded.val[k]) = loaded.val[k]
            /\ TICKER_RE(loaded.val[k])

OnlyBlanksAndComments(text) ==
    \A k \in DOMAIN SplitLines(text) :
        Strip(SplitLines(text)[k]) = <<>> \/ StartsWith(Strip(SplitLines(text)[k]), <<"#">>)

\* C8: an empty file parses to the empty list, without an error, whatever its
\* extension; so does a text file of blank lines and "#" lines only.
C8_EmptyFileEmptyList ==
    loaded # None =>
        /\ content = <<>> => loaded = Ok(<<>>)
        /\ (suffix = "txt" /\ OnlyBlanksAndComments(content)) => loaded = Ok(<<>>)

\* the symbols of the lines of shape, uppercased
ShapeSymbols == [k \in DOMAIN shape |-> Upper(shape[k].sym)]

\* c without the later occurrences of its elements
RECURSIVE Distinct(_)
Distinct(c) ==
    IF c = <<>> THEN <<>>
    ELSE LET d == Distinct(Take(c, Len(c) - 1))
         IN  IF c[Len(c)] \in Range(d) THEN d ELSE Append(d, c[Len(c)])

\* C6: a text line made of a numbering or bullet prefix, a string S that
\* matches the ticker pattern, in any letter case, and an optional
\* " - description" contributes exactly uppercase(S): a file of such lines
\* parses to the uppercased symbols, each once, in order, whatever the
\* prefixes, the casing and the descriptions are.
C6_PrefixedSymbolsParse ==
    loaded # None => loaded = Ok(Distinct(ShapeSymbols))

\* two lines with different prefixes, a description on one, and the same
\* symbol in two casings
C6_Witness ==
    /\ Returned
    /\ Len(shape) = 2
    /\ shape[1].prefix # shape[2].prefix
    /\ shape[1].sym # shape[2].sym
    /\ shape[1].desc # shape[2].desc
    /\ loaded.val = <<Upper(shape[1].sym)>>

(***************************************************************************)
(* Properties of fetch_history and of main                                 *)
(***************************************************************************)
EventsOf(kind) == SelectSeq(events, LAMBDA ev : ev.e = kind)

\* the tickers fetch_history was called for, in the order of the calls
Fetched == [k \in DOMAIN EventsOf("fetch") |-> EventsOf("fetch")[k].t]

\* the tickers whose outcome was printed, in the order of the prints
Reported == [k \in DOMAIN EventsOf("report") |-> EventsOf("report")[k].t]

InLoop == pc \in {"loop", "fetch", "handle"}

\* C2: in the download loop the failure of a ticker (fetch_history raising
\* after its retries, or a write raising) is caught and reported, and the loop
\* goes on: every ticker of the list gets exactly one fetch_history call, in
\* list order, and the run ends only after the last ticker, returning 0.
C2_BatchSurvivesFailures ==
    /\ InLoop => ENABLED Next
    /\ pc = "loop" => Fetched = Take(tickers, idx - 1) /\ Reported = Fetched
    /\ pc \in {"fetch", "handle"} =>
            Fetched = Take(tickers, idx) /\ Reported = Take(tickers, idx - 1)
    /\ (pc = "exit" /\ dirs_made) =>
            Fetched = tickers /\ Reported = tickers /\ exit_code = <<0>>

\* three tickers: the first one failed, the last one was written
C2_Witness ==
    /\ pc = "exit"
    /\ Len(tickers) = 3
    /\ EventsOf("report")[1].what = "error"
    /\ EventsOf("report")[3].what = "ok"
    /\ written # {}

\* the tickers file is missing, or load_tickers_generic raises on it
NoTickerList == ~exists \/ ~load_tickers_generic(suffix, content, col_hint).ok

\* C3: when the tickers file does not exist or load_tickers_generic raises,
\* main reports it and returns a non-zero exit code: no fetch_history call, no
\* output directory, no output file.
C3_ParserErrorAbortsRun ==
    (NoTickerList /\ pc # "start") =>
        /\ pc = "exit"
        /\ exit_code # <<>> /\ exit_code # <<0>>
        /\ EventsOf("message") # <<>>
        /\ events = EventsOf("message")
        /\ ~dirs_made
        /\ written = {}
        /\ merged_records = <<>>
        /\ tickers = <<>>

\* an existing JSON file that json.loads rejects
C3_Witness ==
    /\ pc = "exit"
    /\ exists
    /\ suffix = "json"
    /\ content # <<>>
    /\ NoTickerList

\* the provider calls of fh_log, and the entry after the k-th entry
Calls == SelectSeq(fh_log, LAMBDA en : en.e = "call")
IsLast(k) == k = Len(fh_log)

C9_SleepBetweenFetches ==
    \A i, j \in DOMAIN events :
        (i < j /\ events[i].e = "fetch" /\ events[j].e = "fetch") =>
            \E k \in (i + 1)..(j - 1) : events[k] = Sleep(args.sleep)

\* C10: with --retries <= 0 fetch_history makes no provider call and returns no
\* table: it fails its own assertion; main reports every ticker as an error
\* and writes no per-ticker file and no merged file.
C10_NoRetriesNoData ==
    args.retries <= 0 =>
        /\ fh_log = <<>>
        /\ df = None \/ df = Err([type |-> "AssertionError", attempt |-> 0])
        /\ pc = "handle" => df # None
        /\ \A k \in DOMAIN EventsOf("report") : EventsOf("report")[k].what = "error"
        /\ written = {}
        /\ merged_records = <<>>
        /\ (pc = "exit" /\ dirs_made) => Reported = tickers

\* a finished run over three tickers that asked for every kind of output
C10_Witness ==
    /\ args.retries <= 0
    /\ pc = "exit"
    /\ exit_code = <<0>>
    /\ Len(EventsOf("report")) = 3
    /\ args.csv /\ args.json /\ args.merged_json

====
